---- MODULE Spec2Model ----
(***************************************************************************)
(* Model of src/index.ts (nestjs-mssql-orm): the process-wide connection   *)
(* pool singleton of _MssqlTable, the handles built by                     *)
(* TableFactory.createForClass, and the insert / exec / table.drop /       *)
(* db.useDb operations of a handle.                                        *)
(*                                                                         *)
(* The mssql driver is an external collaborator.  Of it the model keeps:   *)
(* connect() of a ConnectionPool is pending until it resolves or rejects;  *)
(* a resolved pool is open until close(); pool.request() returns a request *)
(* bound to that pool; request.query / request.bulk reject on a closed     *)
(* pool and may reject on an open one; request.bulk reads table.rows and   *)
(* leaves it as it is (only rows.clear(), which index.ts never calls,      *)
(* empties it).  `last` records what the last operation returned or threw  *)
(* and what it handed to a request; `inserted` is a history variable.      *)
(***************************************************************************)
EXTENDS Integers, Sequences, FiniteSets, TLC

\* ----------------------------------------------------------------- bounds
MaxPools == 2
MaxHandles == 2
MaxRows == 3

\* ------------------------------------------------------------ entity data
\* Entity classes of the application.  Order { id; total; note } carries
\* @Table() and @Column() annotations, Bare carries none (no metadata under
\* tableMetadataKey or columnMetadataKey).
Classes == {"Order", "Bare"}

Undefined == "undefined"

\* The classes the application declares.  Ledger { settled: boolean;
\* amount: bigint } is annotated like Order.
Declared == Classes \cup {"Ledger"}

\* The @Column() properties of a class in declaration order, each with the
\* constructor the compiler emits as its design:type; no options are given.
Declarations(c) ==
  CASE c = "Order" ->
         << [property |-> "id", designType |-> "Number"],
            [property |-> "total", designType |-> "Number"],
            [property |-> "note", designType |-> "String"] >>
    [] c = "Ledger" ->
         << [property |-> "settled", designType |-> "Boolean"],
            [property |-> "amount", designType |-> "BigInt"] >>
    [] OTHER -> <<>>

\* String.prototype.toLowerCase on the names the classes use.
ToLowerCase(str) ==
  CASE str = "Order" -> "order"
    [] str = "Ledger" -> "ledger"
    [] str = "Bare" -> "bare"
    [] OTHER -> str

\* typeof Reflect.getMetadata('design:type', target, propertyKey)?.():
\* the constructor is called without arguments; BigInt() throws.
TypeofDesignTypeCall(designType) ==
  CASE designType = "Number" -> [err |-> "none", typeof |-> "number"]
    [] designType = "String" -> [err |-> "none", typeof |-> "string"]
    [] designType = "Boolean" -> [err |-> "none", typeof |-> "boolean"]
    [] designType = "BigInt" -> [err |-> "TypeError", typeof |-> ""]
    [] OTHER -> [err |-> "none", typeof |-> "undefined"]

\* The sqlTypes table.
SqlTypes(typeof) ==
  CASE typeof = "bigint" -> "BigInt"
    [] typeof = "boolean" -> "Bit"
    [] typeof = "number" -> "Int"
    [] OTHER -> "NVarChar(128)"

\* The decorator Column() returns, run on one property: the column list
\* stored under columnMetadataKey afterwards, or the error thrown.
ColumnDecorator(columns, decl) ==
  LET called == TypeofDesignTypeCall(decl.designType)
  IN IF called.err # "none"
     THEN [err |-> called.err, columns |-> columns]
     ELSE [err |-> "none",
           columns |-> Append(columns,
              [column |-> decl.property,
               columnName |-> ToLowerCase(decl.property),
               type |-> SqlTypes(called.typeof)])]

\* The decorators of a class run in declaration order while the class is
\* defined; the first throw ends the definition.
RECURSIVE Decorate(_, _, _)
Decorate(decls, i, columns) ==
  IF i > Len(decls)
  THEN [err |-> "none", columns |-> columns]
  ELSE LET r == ColumnDecorator(columns, decls[i])
       IN IF r.err # "none" THEN r ELSE Decorate(decls, i + 1, r.columns)

ClassDefinition(c) == Decorate(Declarations(c), 1, <<>>)

\* Reflect.getMetadata(columnMetadataKey, cls): what the Column decorators
\* pushed, in declaration order; not defined for a class no decorator ran on.
\* `columns` lists the property names.
ColumnMetadata(c) ==
  IF Declarations(c) # <<>> /\ ClassDefinition(c).err = "none"
  THEN [defined |-> TRUE,
        entries |-> ClassDefinition(c).columns,
        columns |-> [i \in 1..Len(ClassDefinition(c).columns) |->
                       ClassDefinition(c).columns[i].column]]
  ELSE [defined |-> FALSE, entries |-> <<>>, columns |-> <<>>]

\* Row objects handed to insert; a property a row lacks reads as undefined.
RowA == [id |-> "1", total |-> "10", note |-> "x"]
RowB == [id |-> "2", total |-> "20", note |-> Undefined]

\* The argument of insert: null, undefined, one row object, or an array
\* (empty, or of two rows).
Inputs ==
  { [kind |-> k, rows |-> <<>>] : k \in {"null", "undefined"} }
    \cup { [kind |-> "single", rows |-> <<RowA>>] }
    \cup { [kind |-> "array", rows |-> s] : s \in {<<>>, <<RowB, RowA>>} }

NoInput == [kind |-> "undefined", rows |-> <<>>]

\* Database names handed to useDb, as character sequences.
Names ==
  { <<"s", "_", "D", "7">>,
    <<>>,
    <<"s", ";", "D">>,
    <<"-", "s">>,
    <<"7", " ">> }

\* ---------------------------------------------------------------- state
VARIABLES
  pool,      \* _MssqlTable.pool: 0 (unset) or the index of the stored pool
  connecting,\* the number of ConnectionPool objects whose connect() is pending
  pools,     \* the pools whose connect() resolved, in that order, by status
  handles,   \* the handles createForClass returned
  inserted,  \* history: per handle, the row objects passed to insert
  execs,     \* the { exec } objects returned by insert, still held by callers
  last       \* the outcome of the last operation

vars == <<pool, connecting, pools, handles, inserted, execs, last>>

PoolNotInitialized == "Pool not initialized"
InvalidDatabaseName == "Invalid database name"
ConfigRequired == "MSSQL_MODULE_OPTIONS.config is required"
TypeError == "TypeError"
BackendError == "backend error"
NoError == "none"

Outcome(op, h, err, ret, issued) ==
  [op |-> op, h |-> h, cls |-> "", opt |-> "", input |-> NoInput, name |-> <<>>,
   err |-> err, ret |-> ret, issued |-> issued]

Init ==
  /\ pool = 0
  /\ connecting = 0
  /\ pools = <<>>
  /\ handles = <<>>
  /\ inserted = <<>>
  /\ execs = {}
  /\ last = Outcome("init", 0, NoError, "none", <<>>)

\* ------------------------------------------------------ pool singleton
\* The options a construction receives: a factory result with config, a
\* missing or config-less options object, some symbol, or mssqlExtends.
Options == {"config", "noConfig", "symbol", "mssqlExtends"}

\* Variant: the if without the test of the singleton.
ConstructorGuard_NoPoolTest(p, opt) ==
  opt # "mssqlExtends" /\ opt # "symbol"

\* Variant: the if without the tests of the marker and of symbols.
ConstructorGuard_NoMarkerTest(p, opt) ==
  p = 0

\* The condition of the constructor's if: no pool stored and options are
\* neither the internal marker nor any symbol.
ConstructorGuard(p, opt) ==
  p = 0 /\ opt # "mssqlExtends" /\ opt # "symbol"

\* Variant: no test of options.config.
ConfigMissing_Never(opt) ==
  FALSE

\* !options?.config
ConfigMissing(opt) ==
  opt # "config"

\* new _MssqlTable(options) by the hosting module.
Construct(opt) ==
  /\ opt \in Options \ {"mssqlExtends"}
  /\ IF ConstructorGuard(pool, opt)
     THEN IF ConfigMissing(opt)
          THEN /\ UNCHANGED connecting
               /\ last' = [Outcome("construct", 0, ConfigRequired, "none", <<>>)
                             EXCEPT !.opt = opt]
          ELSE /\ connecting + Len(pools) < MaxPools
               /\ connecting' = connecting + 1
               /\ last' = [Outcome("construct", 0, NoError, "instance", <<>>)
                             EXCEPT !.opt = opt]
     ELSE /\ UNCHANGED connecting
          /\ last' = [Outcome("construct", 0, NoError, "instance", <<>>)
                        EXCEPT !.opt = opt]
  /\ UNCHANGED <<pool, pools, handles, inserted, execs>>

\* The singleton after .then((pool) => (_MssqlTable.pool = pool)) ran for
\* the pool that resolved as number n.
StoredAfterResolve(p, n) == n

\* appPool.connect() of one pending pool resolves.
ConnectResolved ==
  /\ connecting > 0
  /\ connecting' = connecting - 1
  /\ pools' = Append(pools, "open")
  /\ pool' = StoredAfterResolve(pool, Len(pools) + 1)
  /\ last' = Outcome("connectResolved", 0, NoError, "none", <<>>)
  /\ UNCHANGED <<handles, inserted, execs>>

\* Variant: the promise chain without .catch, the rejection unhandled.
ConnectRejected_Unhandled ==
  /\ connecting > 0
  /\ connecting' = connecting - 1
  /\ last' = Outcome("connectRejected", 0, BackendError, "none", <<>>)
  /\ UNCHANGED <<pool, pools, handles, inserted, execs>>

\* appPool.connect() of one pending pool rejects:
\* .catch((err) => console.error(...)).
ConnectRejected ==
  /\ connecting > 0
  /\ connecting' = connecting - 1
  /\ last' = Outcome("connectRejected", 0, NoError, "logged", <<>>)
  /\ UNCHANGED <<pool, pools, handles, inserted, execs>>

\* Variant: _MssqlTable.pool.close() without the optional chain.
PoolCloseOutcome_NoOptionalChain(ps, p) ==
  IF p = 0
  THEN [pools |-> ps, stored |-> p, err |-> TypeError]
  ELSE [pools |-> [ps EXCEPT ![p] = "closed"], stored |-> p, err |-> NoError]

\* Variant: the hook also resets the singleton.
PoolCloseOutcome_Unsets(ps, p) ==
  IF p = 0
  THEN [pools |-> ps, stored |-> 0, err |-> NoError]
  ELSE [pools |-> [ps EXCEPT ![p] = "closed"], stored |-> 0, err |-> NoError]

\* await _MssqlTable.pool?.close(): nothing is called on an unset singleton,
\* and the singleton is not assigned.
PoolCloseOutcome(ps, p) ==
  IF p = 0
  THEN [pools |-> ps, stored |-> p, err |-> NoError]
  ELSE [pools |-> [ps EXCEPT ![p] = "closed"], stored |-> p, err |-> NoError]

\* onApplicationShutdown, invoked on the module's provider instance (h = 0)
\* or on a handle h that carries the method.
Shutdown(h) ==
  /\ pools' = PoolCloseOutcome(pools, pool).pools
  /\ pool' = PoolCloseOutcome(pools, pool).stored
  /\ last' = Outcome("onApplicationShutdown", h, PoolCloseOutcome(pools, pool).err,
                     IF PoolCloseOutcome(pools, pool).err = NoError THEN "void" ELSE "none",
                     <<>>)
  /\ UNCHANGED <<connecting, handles, inserted, execs>>

OnApplicationShutdown == Shutdown(0)

\* ------------------------------------------------------------- handles
\* Reflect.getMetadata(tableMetadataKey, cls): set by @Table(), without a
\* name, on Order and Ledger to the lower-cased class name; Bare is not
\* decorated.
TableMetadata(c) ==
  IF c \in {"Order", "Ledger"} THEN ToLowerCase(c) ELSE Undefined

\* The own properties of _MssqlTable.prototype.
ProtoProperties ==
  {"constructor", "onApplicationShutdown", "preparedStatement", "request",
   "db", "table", "insert"}

\* The descriptors createForClass defines on the instance: all of the
\* prototype's but the one it deletes.
HandleProperties == ProtoProperties \ {"constructor"}

\* columns?.map((column) => column.column) || []
InnerColumns(c) ==
  IF ColumnMetadata(c).defined THEN ColumnMetadata(c).columns ELSE <<>>

\* iTable[innerTable].columns after the loop that adds one column per entry
\* of the column metadata.
TableColumns(c) ==
  [i \in 1..Len(ColumnMetadata(c).entries) |->
     [name |-> ColumnMetadata(c).entries[i].columnName,
      type |-> ColumnMetadata(c).entries[i].type,
      nullable |-> TRUE]]

\* A class declaration is evaluated (when its file is loaded): its
\* decorators run.
DefineClass(c) ==
  /\ c \in Declared
  /\ last' = [Outcome("define", 0, ClassDefinition(c).err,
                      IF ClassDefinition(c).err = NoError THEN "class" ELSE "none",
                      <<>>)
                EXCEPT !.cls = c]
  /\ UNCHANGED <<pool, connecting, pools, handles, inserted, execs>>

\* TableFactory.createForClass(cls).  The behavior object is constructed
\* with mssqlExtends, which has no config; `for (const column of columns)`
\* throws a TypeError when the class has no column metadata, so no handle is
\* returned then.
CreateForClass(c) ==
  /\ c \in Classes
  /\ IF ConstructorGuard(pool, "mssqlExtends") /\ ConfigMissing("mssqlExtends")
     THEN /\ UNCHANGED <<handles, inserted>>
          /\ last' = [Outcome("createForClass", 0, ConfigRequired, "none", <<>>)
                        EXCEPT !.cls = c]
     ELSE IF ~ColumnMetadata(c).defined
     THEN /\ UNCHANGED <<handles, inserted>>
          /\ last' = [Outcome("createForClass", 0, TypeError, "none", <<>>)
                        EXCEPT !.cls = c]
     ELSE /\ Len(handles) < MaxHandles
          /\ handles' = Append(handles,
                 [cls |-> c, name |-> TableMetadata(c), create |-> TRUE,
                  tableColumns |-> TableColumns(c),
                  columns |-> InnerColumns(c), rows |-> <<>>,
                  properties |-> HandleProperties])
          /\ inserted' = Append(inserted, <<>>)
          /\ last' = [Outcome("createForClass", Len(handles) + 1, NoError, "handle", <<>>)
                        EXCEPT !.cls = c]
  /\ UNCHANGED <<pool, connecting, pools, execs>>

\* Variant: request() without the check of the singleton.
RequestThrows_Never(p) == FALSE

\* request(): throws unless a pool is stored.
RequestThrows(p) == p = 0

\* What an operation hands to a request of pool p.
Query(p, text, param) ==
  [kind |-> "query", pool |-> p, text |-> text, param |-> param, rows |-> <<>>]
Bulk(p, rows) ==
  [kind |-> "bulk", pool |-> p, text |-> <<>>, param |-> "", rows |-> rows]

\* The results request.query / request.bulk can settle with on pool p.
BackendResults(p) ==
  IF p \in DOMAIN pools /\ pools[p] = "open"
  THEN {NoError, BackendError}
  ELSE {BackendError}

\* Variant: the early return without the empty-array test.
InsertReturnsEarly_NoEmptyTest(h, input) ==
  \/ input.kind \in {"null", "undefined"}
  \/ Len(h.columns) = 0

\* The early return of insert.
InsertReturnsEarly(h, input) ==
  \/ input.kind \in {"null", "undefined"}
  \/ (input.kind = "array" /\ Len(input.rows) = 0)
  \/ Len(h.columns) = 0

\* Variant: the values taken in reverse column order.
RowValues_Reversed(columns, row) ==
  [j \in 1..Len(columns) |-> row[columns[Len(columns) + 1 - j]]]

\* this[innerColumns].map((column) => row[column])
RowValues(columns, row) ==
  [j \in 1..Len(columns) |-> row[columns[j]]]

\* [rows].flat()
Flat(input) == input.rows

\* Variant: one _Table per entity class, shared by its handles.
HandlesAfterAdd_SharedTable(hs, h, irows) ==
  [g \in DOMAIN hs |->
     IF hs[g].cls = hs[h].cls
     THEN [hs[g] EXCEPT !.rows =
             @ \o [i \in 1..Len(irows) |-> RowValues(hs[h].columns, irows[i])]]
     ELSE hs[g]]

\* Variant: request() called before the loop, which a throw skips.
HandlesAfterAdd_RequestFirst(hs, h, irows) ==
  IF pool = 0
  THEN hs
  ELSE [hs EXCEPT ![h].rows =
          @ \o [i \in 1..Len(irows) |-> RowValues(hs[h].columns, irows[i])]]

\* The handles after the for loop of insert on handle h.
HandlesAfterAdd(hs, h, irows) ==
  [hs EXCEPT ![h].rows =
     @ \o [i \in 1..Len(irows) |-> RowValues(hs[h].columns, irows[i])]]

RECURSIVE TotalRows(_, _)
TotalRows(hs, n) ==
  IF n = 0 THEN 0 ELSE Len(hs[n].rows) + TotalRows(hs, n - 1)

\* handle.insert(input)
Insert(h, input) ==
  /\ h \in DOMAIN handles
  /\ "insert" \in handles[h].properties
  /\ input \in Inputs
  /\ IF InsertReturnsEarly(handles[h], input)
     THEN /\ UNCHANGED <<handles, inserted, execs>>
          /\ last' = [Outcome("insert", h, NoError, Undefined, <<>>)
                        EXCEPT !.input = input]
     ELSE /\ TotalRows(handles, Len(handles)) + Len(Flat(input)) <= MaxRows
          /\ handles' = HandlesAfterAdd(handles, h, Flat(input))
          /\ inserted' = [inserted EXCEPT ![h] = @ \o Flat(input)]
          /\ IF RequestThrows(pool)
             THEN /\ UNCHANGED execs
                  /\ last' = [Outcome("insert", h, PoolNotInitialized, "none", <<>>)
                                EXCEPT !.input = input]
             ELSE /\ execs' = execs \cup {[h |-> h, pool |-> pool]}
                  /\ last' = [Outcome("insert", h, NoError, "exec", <<>>)
                                EXCEPT !.input = input]
  /\ UNCHANGED <<pool, connecting, pools>>

\* exec() of an object insert returned: request.bulk(this[innerTable]) on the
\* request opened by that insert call.
Exec(e) ==
  /\ e \in execs
  /\ \E res \in BackendResults(e.pool) :
       last' = Outcome("exec", e.h, res,
                       IF res = NoError THEN "bulkResult" ELSE "none",
                       <<Bulk(e.pool, handles[e.h].rows)>>)
  /\ UNCHANGED <<pool, connecting, pools, handles, inserted, execs>>

\* The characters of the names above that lie in a-z, A-Z and 0-9.
LowerCase == {"s"}
UpperCase == {"D"}
Digits == {"7"}

\* Variant: the pattern /[^a-zA-Z0-9_-]/.
ForbiddenChar_HyphenAllowed(ch) ==
  ch \notin (LowerCase \cup UpperCase \cup Digits \cup {"_", "-"})

\* /[^a-zA-Z0-9_]/ on one character.
ForbiddenChar(ch) == ch \notin (LowerCase \cup UpperCase \cup Digits \cup {"_"})

\* forbiddenChars.test(name)
ForbiddenCharsTest(name) == \E i \in 1..Len(name) : ForbiddenChar(name[i])

\* querystring.escape: everything outside A-Za-z0-9 and -_.!~*'() is
\* percent-encoded.
EscapeChar(ch) ==
  IF ch \in (LowerCase \cup UpperCase \cup Digits \cup {"-", "_", ".", "!", "~", "*", "'", "(", ")"})
  THEN ch
  ELSE CASE ch = ";" -> "%3B"
         [] ch = " " -> "%20"
         [] OTHER -> "%EF%BF%BD"

Escape(name) == [i \in 1..Len(name) |-> EscapeChar(name[i])]

\* handle.db.useDb(name)
UseDb(h, name) ==
  /\ h \in DOMAIN handles
  /\ "db" \in handles[h].properties
  /\ name \in Names
  /\ IF ForbiddenCharsTest(name)
     THEN last' = [Outcome("useDb", h, InvalidDatabaseName, "none", <<>>)
                     EXCEPT !.name = name]
     ELSE IF RequestThrows(pool)
          THEN last' = [Outcome("useDb", h, PoolNotInitialized, "none", <<>>)
                          EXCEPT !.name = name]
          ELSE \E res \in BackendResults(pool) :
                 last' = [Outcome("useDb", h, res,
                                  IF res = NoError THEN "void" ELSE "none",
                                  <<Query(pool, <<"USE ">> \o Escape(name), "")>>)
                            EXCEPT !.name = name]
  /\ UNCHANGED <<pool, connecting, pools, handles, inserted, execs>>

\* handle.table.drop()
Drop(h) ==
  /\ h \in DOMAIN handles
  /\ "table" \in handles[h].properties
  /\ IF RequestThrows(pool)
     THEN last' = Outcome("drop", h, PoolNotInitialized, "none", <<>>)
     ELSE \E res \in BackendResults(pool) :
            last' = Outcome("drop", h, res,
                            IF res = NoError THEN "void" ELSE "none",
                            <<Query(pool, <<"DROP TABLE QUOTENAME(@name)">>, handles[h].name)>>)
  /\ UNCHANGED <<pool, connecting, pools, handles, inserted, execs>>

\* handle.onApplicationShutdown(): present on the object at run time when
\* the descriptor was copied (the MssqlTable<T> type omits it).
HandleShutdown(h) ==
  /\ h \in DOMAIN handles
  /\ "onApplicationShutdown" \in handles[h].properties
  /\ Shutdown(h)

\* ------------------------------------------------------ specifications
PoolSteps ==
  \/ \E opt \in Options : Construct(opt)
  \/ ConnectResolved
  \/ ConnectRejected
  \/ OnApplicationShutdown
  \/ \E c \in Classes : CreateForClass(c)

\* Every operation of the program.
Next ==
  \/ PoolSteps
  \/ \E c \in Declared : DefineClass(c)
  \/ \E h \in 1..MaxHandles, input \in Inputs : Insert(h, input)
  \/ \E e \in execs : Exec(e)
  \/ \E h \in 1..MaxHandles, name \in Names : UseDb(h, name)
  \/ \E h \in 1..MaxHandles : Drop(h)
  \/ \E h \in 1..MaxHandles : HandleShutdown(h)

Spec == Init /\ [][Next]_vars

\* The program without insert and exec, which the statement operations and
\* the shutdown hook neither read nor write.
NextDb ==
  \/ PoolSteps
  \/ \E h \in 1..MaxHandles, name \in Names : UseDb(h, name)
  \/ \E h \in 1..MaxHandles : Drop(h)
  \/ \E h \in 1..MaxHandles : HandleShutdown(h)

SpecDb == Init /\ [][NextDb]_vars

\* The program without useDb and drop, which change no state of the
\* program, and with the shutdown hook invoked on the module only.
NextInsert ==
  \/ PoolSteps
  \/ \E h \in 1..MaxHandles, input \in Inputs : Insert(h, input)
  \/ \E e \in execs : Exec(e)

SpecInsert == Init /\ [][NextInsert]_vars

\* The program as long as no connect() has resolved: the singleton is unset
\* and no { exec } object exists.
NextUnconnected ==
  \/ \E opt \in Options : Construct(opt)
  \/ ConnectRejected
  \/ OnApplicationShutdown
  \/ \E c \in Classes : CreateForClass(c)
  \/ \E h \in 1..MaxHandles, input \in Inputs : Insert(h, input)
  \/ \E h \in 1..MaxHandles, name \in Names : UseDb(h, name)
  \/ \E h \in 1..MaxHandles : Drop(h)
  \/ \E h \in 1..MaxHandles : HandleShutdown(h)

SpecUnconnected == Init /\ [][NextUnconnected]_vars

\* Class definitions, constructions and createForClass: the program without
\* the operations of a handle.
NextTables ==
  \/ PoolSteps
  \/ \E c \in Declared : DefineClass(c)

SpecTables == Init /\ [][NextTables]_vars

\* ---------------------------------------------------------------- claims
\* A name made of letters, digits and underscores only.
IsIdentifier(name) ==
  \A i \in 1..Len(name) : name[i] \in {"s", "D", "7", "_"}

\* An insert argument that holds at least one row.
HasRows(input) == input.kind \in {"single", "array"} /\ Len(input.rows) > 0

\* An insert argument that is falsy or an empty array.
IsFalsyOrEmpty(input) ==
  input.kind \in {"null", "undefined"} \/ (input.kind = "array" /\ input.rows = <<>>)

\* The values of row r in the declared column order of handle h.
ValuesInColumnOrder(h, r) == [j \in 1..Len(h.columns) |-> r[h.columns[j]]]

ProgramState == <<pool, connecting, pools, handles, inserted, execs>>

\* C1: while no pool is stored in the singleton (never constructed, connect
\* pending or connect failed), insert of rows on a handle with columns,
\* table.drop() and db.useDb(validName) each fail with the pool-not-initialized
\* error and hand nothing to the backend, and no { exec } object exists.
C1_NoPoolOperationsFail ==
  pool = 0 =>
    /\ execs = {}
    /\ ( \/ (last.op = "insert" /\ HasRows(last.input)
               /\ Len(handles[last.h].columns) >= 1)
         \/ last.op = "drop"
         \/ (last.op = "useDb" /\ IsIdentifier(last.name)) )
       => (last.err = PoolNotInitialized /\ last.issued = <<>> /\ last.ret = "none")

\* C1 witness: insert of rows failed while a connect was still pending.
C1_Witness ==
  /\ pool = 0
  /\ connecting > 0
  /\ last.op = "insert"
  /\ HasRows(last.input)
  /\ last.err = PoolNotInitialized

\* C2: useDb(name) issues a statement only for a name of letters, digits and
\* underscores: any other character gives the invalid-name error and no
\* statement, in every pool state; a valid name with a pool stored gives
\* exactly one statement, USE followed by the name.
C2_UseDbValidatesName ==
  last.op = "useDb" =>
    /\ ~IsIdentifier(last.name) =>
         (last.err = InvalidDatabaseName /\ last.issued = <<>>)
    /\ (IsIdentifier(last.name) /\ pool # 0) =>
         /\ Len(last.issued) = 1
         /\ last.issued[1].kind = "query"
         /\ last.issued[1].text = <<"USE ">> \o last.name
    /\ last.issued # <<>> => IsIdentifier(last.name)

\* C2 witness: a valid, non-empty name was used with a pool stored.
C2_Witness ==
  /\ last.op = "useDb"
  /\ last.name # <<>>
  /\ pool # 0
  /\ Len(last.issued) = 1

\* C3: the buffer of every handle holds exactly one row per row object ever
\* passed to insert on that handle, in call order, each row being the values
\* of the declared columns in declared order.
C3_BufferIsInsertedRows ==
  \A h \in DOMAIN handles :
    /\ Len(handles[h].rows) = Len(inserted[h])
    /\ \A i \in 1..Len(inserted[h]) :
         /\ Len(handles[h].rows[i]) = Len(handles[h].columns)
         /\ handles[h].rows[i] = ValuesInColumnOrder(handles[h], inserted[h][i])

\* C3 witness: an insert call of one row on a handle that held the two
\* rows of an earlier call.
C3_Witness ==
  /\ last.op = "insert"
  /\ last.input.kind = "single"
  /\ Len(handles[last.h].columns) >= 1
  /\ Len(handles[last.h].rows) = 3
  /\ handles[last.h].rows[1] # handles[last.h].rows[2]
  /\ handles[last.h].rows[2] = handles[last.h].rows[3]

\* C4 (as claimed): at most one connection pool is ever opened.
C4_AtMostOnePoolOpened == Len(pools) <= 1

\* C5 (as claimed): after exec completes successfully the buffer of its
\* handle is empty.
C5_ExecEmptiesBuffer ==
  (last.op = "exec" /\ last.err = NoError) => handles[last.h].rows = <<>>

\* C6: an insert or exec on one handle leaves every other handle as it was,
\* and exec on a handle sends the rows inserted through that handle only.
C6_HandlesIndependent ==
  [][ /\ \A h \in DOMAIN handles :
           (last'.op \in {"insert", "exec"} /\ last'.h # h)
             => (handles'[h] = handles[h] /\ inserted'[h] = inserted[h])
      /\ last'.op = "exec" =>
           /\ Len(last'.issued) = 1
           /\ Len(last'.issued[1].rows) = Len(inserted[last'.h])
           /\ \A i \in 1..Len(inserted[last'.h]) :
                last'.issued[1].rows[i]
                  = ValuesInColumnOrder(handles[last'.h], inserted[last'.h][i])
    ]_vars

\* C6 witness: two handles of one class, rows inserted through the first only.
C6_Witness ==
  /\ Len(handles) = 2
  /\ handles[1].cls = handles[2].cls
  /\ last.op = "insert"
  /\ last.h = 1
  /\ handles[1].rows # <<>>
  /\ handles[2].rows = <<>>

\* C7 (as claimed): only the shutdown hook of the hosting module closes the
\* pool, never an operation of a handle.
C7_OnlyModuleClosesPool ==
  [][ (\E p \in DOMAIN pools : pools[p] # "closed" /\ pools'[p] = "closed")
        => last'.h = 0 ]_vars

\* C8 (as claimed): for an entity class with zero declared columns the handle
\* exists and insert on it is a no-op for every input.
C8_ZeroColumnInsertIsNoop ==
  (last.op = "createForClass" /\ Len(InnerColumns(last.cls)) = 0) =>
    /\ last.err = NoError
    /\ last.h \in DOMAIN handles
    /\ \A input \in Inputs : InsertReturnsEarly(handles[last.h], input)

\* C9: insert of null, undefined or an empty array changes nothing, returns
\* no result object and raises no error, in every pool state.
C9_FalsyInsertIsNoop ==
  [][ (last'.op = "insert" /\ IsFalsyOrEmpty(last'.input)) =>
        /\ UNCHANGED ProgramState
        /\ last'.err = NoError
        /\ last'.ret = Undefined
        /\ last'.issued = <<>> ]_vars

\* C9 witness: insert(null) while no pool is stored, on a handle that holds rows.
C9_Witness ==
  /\ last.op = "insert"
  /\ last.input.kind = "null"
  /\ pool = 0
  /\ handles[last.h].rows # <<>>
  /\ last.ret = Undefined

\* C10: the shutdown hook run while no pool is stored raises no error and
\* changes nothing.
C10_ShutdownWithoutPool ==
  [][ (last'.op = "onApplicationShutdown" /\ pool = 0) =>
        /\ UNCHANGED ProgramState
        /\ last'.err = NoError ]_vars

\* C10 witness: the hook ran with no pool stored while a connect was pending.
C10_Witness ==
  /\ last.op = "onApplicationShutdown"
  /\ last.h = 0
  /\ pool = 0
  /\ connecting > 0
  /\ last.err = NoError

\* The type the lookup gives a property declared with the given type.
DeclaredSqlType(designType) ==
  CASE designType = "Boolean" -> "Bit"
    [] designType = "Number" -> "Int"
    [] designType = "BigInt" -> "BigInt"
    [] OTHER -> "NVarChar(128)"

C12_ConstructionIdempotentOncePoolStored ==
  [][(last'.op = "construct" /\ pool # 0) =>
       /\ UNCHANGED ProgramState
       /\ last'.err = NoError
       /\ last'.ret = "instance"]_vars

C12_Witness ==
  /\ last.op = "construct"
  /\ last.opt = "config"
  /\ last.err = NoError
  /\ pool # 0
  /\ pools[pool] = "open"
  /\ connecting = 0
  /\ Len(pools) = 1

\* C13: a rejected connect is logged and not raised; the singleton keeps its
\* value (unset when no other connect resolved), no pool is recorded for it,
\* and while the singleton is unset a construction with configuration starts
\* a new connect, whose resolution stores an open pool.
C13_ConnectFailureLoggedAndRetryable ==
  [][/\ last'.op = "connectRejected" =>
          /\ last'.err = NoError
          /\ last'.ret = "logged"
          /\ pool' = pool
          /\ pools' = pools
     /\ (last'.op = "construct" /\ last'.opt = "config" /\ pool = 0) =>
          /\ last'.err = NoError
          /\ connecting' = connecting + 1
     /\ last'.op = "connectResolved" =>
          /\ pool' # 0
          /\ pools'[pool'] = "open"]_vars

C13_Witness ==
  /\ last.op = "connectRejected"
  /\ last.ret = "logged"
  /\ pool = 0
  /\ connecting = 0

C15_UnannotatedClassGivesEmptyHandle ==
  (last.op = "createForClass" /\ ~ColumnMetadata(last.cls).defined) =>
    /\ last.err = NoError
    /\ last.ret = "handle"
    /\ last.h \in DOMAIN handles
    /\ handles[last.h].columns = <<>>

\* C16: exec hands the backend exactly one bulk copy, its payload is the whole
\* buffer of the handle as it is when exec runs, the request it uses is opened
\* when exec is invoked, hence on the pool the singleton holds then, and a
\* result of the backend is returned as it is.
C16_ExecBulkCopiesBufferOnRequestOpenedAtExec ==
  last.op = "exec" =>
    /\ Len(last.issued) = 1
    /\ last.issued[1].kind = "bulk"
    /\ last.issued[1].rows = handles[last.h].rows
    /\ last.issued[1].pool = pool
    /\ last.err = NoError => last.ret = "bulkResult"

\* C17: createForClass starts no pool construction: it leaves the singleton,
\* the pending connects and the pools as they were and never raises the
\* config-is-required error; for a class with column metadata it returns a
\* handle whether or not a pool is stored.
C17_CreateForClassLeavesPoolAlone ==
  [][last'.op = "createForClass" =>
       /\ pool' = pool
       /\ connecting' = connecting
       /\ pools' = pools
       /\ last'.err # ConfigRequired
       /\ ColumnMetadata(last'.cls).defined =>
            /\ last'.ret = "handle"
            /\ Len(handles') = Len(handles) + 1]_vars

C17_Witness ==
  /\ last.op = "createForClass"
  /\ last.ret = "handle"
  /\ Len(handles) = 1
  /\ pool = 0
  /\ connecting = 0
  /\ pools = <<>>

\* C18: an insert of rows that fails with the pool-not-initialized error has
\* already appended the values of its rows to the buffer of the handle; no
\* later step removes rows from a buffer, and an exec hands the backend the
\* whole buffer, so those rows are part of a later bulk copy.
C18_FailedInsertKeepsRows ==
  [][/\ (last'.op = "insert" /\ last'.err = PoolNotInitialized) =>
          /\ pool = 0
          /\ HasRows(last'.input)
          /\ Len(handles'[last'.h].rows)
               = Len(handles[last'.h].rows) + Len(Flat(last'.input))
          /\ \A i \in 1..Len(Flat(last'.input)) :
               handles'[last'.h].rows[Len(handles[last'.h].rows) + i]
                 = ValuesInColumnOrder(handles'[last'.h], Flat(last'.input)[i])
     /\ \A h \in DOMAIN handles :
          /\ h \in DOMAIN handles'
          /\ SubSeq(handles'[h].rows, 1, Len(handles[h].rows)) = handles[h].rows
     /\ last'.op = "exec" =>
          last'.issued[1].rows = handles'[last'.h].rows]_vars

C18_Witness ==
  /\ last.op = "insert"
  /\ last.err = PoolNotInitialized
  /\ handles[last.h].rows # <<>>
  /\ execs = {}

\* C19: a stored pool is never unset; onApplicationShutdown closes the stored
\* pool and leaves the singleton referring to it.  While the stored pool is
\* closed, table.drop() and db.useDb(validName) do not fail with the
\* pool-not-initialized error but are issued against that closed pool, and a
\* construction creates no pool and starts no connect.
C19_ClosedPoolStaysStored ==
  [][/\ pool # 0 => pool' # 0
     /\ last'.op = "onApplicationShutdown" =>
          /\ pool' = pool
          /\ pool # 0 => pools'[pool] = "closed"
     /\ (/\ pool # 0
         /\ pools[pool] = "closed"
         /\ \/ last'.op = "drop"
            \/ (last'.op = "useDb" /\ IsIdentifier(last'.name))) =>
          /\ last'.err # PoolNotInitialized
          /\ Len(last'.issued) = 1
          /\ last'.issued[1].pool = pool
          /\ pools[last'.issued[1].pool] = "closed"
     /\ (pool # 0 /\ pools[pool] = "closed" /\ last'.op = "construct") =>
          /\ connecting' = connecting
          /\ pools' = pools
          /\ pool' = pool]_vars

C19_Witness ==
  /\ pool # 0
  /\ pools[pool] = "closed"
  /\ connecting = 0
  /\ last.op = "drop"
  /\ last.err = BackendError
  /\ Len(last.issued) = 1
  /\ last.issued[1].pool = pool
====
